---- MODULE Spec2Model ----
(***************************************************************************)
(* Model of rl_sched_mod.c: a kernel module whose worker thread samples    *)
(* every process once per interval, classifies its CPU-time delta, picks   *)
(* an epsilon-greedy action on a per-pid Q-table, renices the task and     *)
(* performs a fixed-point Q-learning update.                               *)
(*                                                                         *)
(* C integers: `int` is 32 bits and the kernel is built with wrapping      *)
(* signed arithmetic (AddInt/SubInt wrap).  `long` and `unsigned long long`*)
(* values are kept far below their width by the bounds on CPU time, so     *)
(* plain integer arithmetic is exact for them; C division truncates toward *)
(* zero (TruncDiv).                                                        *)
(***************************************************************************)
EXTENDS Integers, Sequences, FiniteSets, TLC

(* ------------------------------ bounds --------------------------------- *)
\* number of process ids the host can hand out
NumPids == 2
\* number of enumeration passes the worker is allowed to start
MaxTicks == 3
\* number of pid_entry objects the allocator can hold
MaxEntries == 3
\* number of concurrent callers in the table-store harness
NumCallers == 2
\* inputs that differ from the quiet case, over a whole run: a read of
\* sum_exec_runtime that finds the task has run, a failing kzalloc, an
\* exploring draw of choose_action, a task exit
MaxInputs == 3

(* ------------------------- program constants --------------------------- *)
NUM_STATES == 3
NUM_ACTIONS == 3
RL_STATE_LOW == 0
RL_STATE_MED == 1
RL_STATE_HIGH == 2
RL_DEC_NICE == 0
RL_INC_NICE == 1
RL_NOOP == 2
INT_MAX == 2147483647
INT_MIN == (-2147483647) - 1
\* stand-in for the smallest `long`: below every Q-value the model reaches
LONG_MIN == (-2147483647) - 1
MAX_ERRNO == 4095
ENOMEM == 12
NULL == 0
EXIT_RUNNING == 0
EXIT_DEAD == 16
EXIT_ZOMBIE == 32

States == 0 .. (NUM_STATES - 1)
Actions == 0 .. (NUM_ACTIONS - 1)
Pids == 1 .. NumPids
Addrs == 1 .. MaxEntries
Callers == 1 .. NumCallers

(* --------------------------- C arithmetic ------------------------------ *)
\* C division of a by a positive b: truncates toward zero
TruncDiv(a, b) == IF a >= 0 THEN a \div b ELSE -((-a) \div b)

\* 32-bit wrapping a + b
AddInt(a, b) ==
  IF b > 0 /\ a > INT_MAX - b THEN INT_MIN + ((a - (INT_MAX - b)) - 1)
  ELSE IF b < 0 /\ a < INT_MIN - b THEN INT_MAX - (((INT_MIN - b) - a) - 1)
  ELSE a + b

\* 32-bit wrapping a - b
SubInt(a, b) ==
  IF b < 0 /\ a > INT_MAX + b THEN INT_MIN + ((a - (INT_MAX + b)) - 1)
  ELSE IF b > 0 /\ a < INT_MIN + b THEN INT_MAX - (((INT_MIN + b) - a) - 1)
  ELSE a - b

\* ERR_PTR / IS_ERR / PTR_ERR of include/linux/err.h on pointers-as-integers
ERR_PTR(err) == err
IS_ERR(ptr) == ptr < 0 /\ ptr >= -MAX_ERRNO
PTR_ERR(ptr) == ptr

(* --------------------------- pure functions ---------------------------- *)
cpu_delta_to_state_le(delta_ns) ==
  IF delta_ns <= 1000000 THEN RL_STATE_LOW
  ELSE IF delta_ns <= 50000000 THEN RL_STATE_MED
  ELSE RL_STATE_HIGH

cpu_delta_to_state(delta_ns) ==
  IF delta_ns < 1000000 THEN RL_STATE_LOW
  ELSE IF delta_ns < 50000000 THEN RL_STATE_MED
  ELSE RL_STATE_HIGH

clamp_nice_nolow(n) ==
  IF n > 19 THEN 19 ELSE n

clamp_nice(n) ==
  IF n < -20 THEN -20
  ELSE IF n > 19 THEN 19
  ELSE n

\* the scan of choose_action: first index holding the row's maximum
RECURSIVE ScanBestA(_, _, _, _)
ScanBestA(row, a, best, best_a) ==
  IF a >= NUM_ACTIONS THEN best_a
  ELSE IF row[a] > best THEN ScanBestA(row, a + 1, row[a], a)
  ELSE ScanBestA(row, a + 1, best, best_a)

\* the scan of q_update: the row's maximum, LONG_MIN if nothing exceeds it
RECURSIVE ScanBestNext(_, _, _)
ScanBestNext(row, i, best_next) ==
  IF i >= NUM_ACTIONS THEN best_next
  ELSE IF row[i] > best_next THEN ScanBestNext(row, i + 1, row[i])
  ELSE ScanBestNext(row, i + 1, best_next)

\* r < epsilon_permille with r a u32 in 0..999: the int is converted to
\* unsigned, so a negative epsilon compares as a huge value
LessU32(r, eps) == IF eps < 0 THEN TRUE ELSE r < eps

choose_action_lasttie(pe, s, eps, r, r2) ==
  IF LessU32(r, eps) THEN r2 % NUM_ACTIONS
  ELSE CHOOSE a \in Actions :
         /\ \A b \in Actions : pe.qtable[s][b] <= pe.qtable[s][a]
         /\ \A b \in Actions : b > a => pe.qtable[s][b] < pe.qtable[s][a]

\* r and r2 are the two get_random_u32() draws (r already reduced % 1000)
choose_action(pe, s, eps, r, r2) ==
  IF LessU32(r, eps) THEN r2 % NUM_ACTIONS
  ELSE ScanBestA(pe.qtable[s], 0, LONG_MIN, 0)

q_update_noq(pe, s, a, reward, s_next, alpha, gamma) ==
  LET q == pe.qtable[s][a]
      scanned == ScanBestNext(pe.qtable[s_next], 0, LONG_MIN)
      best_next == IF scanned = LONG_MIN THEN 0 ELSE scanned
      tmp == reward + TruncDiv(gamma * best_next, 1000)
      q2 == q + TruncDiv(alpha * tmp, 1000)
  IN [pe EXCEPT !.qtable[s][a] = q2]

q_update(pe, s, a, reward, s_next, alpha, gamma) ==
  LET q == pe.qtable[s][a]
      scanned == ScanBestNext(pe.qtable[s_next], 0, LONG_MIN)
      best_next == IF scanned = LONG_MIN THEN 0 ELSE scanned
      tmp == (reward + TruncDiv(gamma * best_next, 1000)) - q
      q2 == q + TruncDiv(alpha * tmp, 1000)
  IN [pe EXCEPT !.qtable[s][a] = q2]


(* ------------------------------- state --------------------------------- *)
VARIABLES
  alpha_permille, gamma_permille, epsilon_permille, action_step,
  pid_table,        \* the list: sequence of entry addresses, head first
  heap,             \* allocated pid_entry objects, by address
  pid_table_lock,   \* 0 when free, else the holder
  rl_thread,        \* the task pointer kept by rl_init
  init_ret,         \* value returned by rl_init
  should_stop,      \* kthread_should_stop()
  mpc,              \* module lifecycle position
  exit_state, sum_exec_runtime, nice,   \* the host's tasks, by pid
  wpc,              \* position of rl_worker
  rcu,              \* worker inside rcu_read_lock()
  todo,             \* processes for_each_process has still to visit
  p, curr_runtime, delta, st, pe, action, reward,   \* rl_worker locals
  ticks,            \* enumeration passes started
  budget,           \* what is left of MaxInputs
  set_nice_calls,   \* set_user_nice() calls of the latest apply_action_to_task
  kmsg,             \* pr_info() records of the latest apply_action_to_task
  h_obs, h_cls, h_delta,   \* history, by entry address (see WBook, WCheck)
  h_drain,          \* history of the drain (see free_all_entries, WUnlock)
  h_fail,           \* history: the pids whose last allocation failed
  cpc, cpid, cret,  \* table-store harness: callers of lines 235-237
  args, ret         \* function harness: arguments and result of one call

cfgvars == <<alpha_permille, gamma_permille, epsilon_permille, action_step>>
tablevars == <<pid_table, heap>>
modvars == <<rl_thread, init_ret, should_stop, mpc>>
taskvars == <<exit_state, sum_exec_runtime, nice>>
localvars == <<p, curr_runtime, delta, st, pe, action, reward>>
actvars == <<set_nice_calls, kmsg>>
histvars == <<h_obs, h_cls, h_delta, h_drain, h_fail>>
callervars == <<cpc, cpid, cret>>
unitvars == <<args, ret>>
vars == <<cfgvars, tablevars, pid_table_lock, modvars, taskvars, wpc, rcu,
          todo, localvars, ticks, budget, actvars, histvars, callervars,
          unitvars>>

\* holders of pid_table_lock
LOCK_FREE == 0
WORKER == 100
EXITER == 101

\* the task pointer kthread_run returns on success
THREAD_PTR == 4096

\* CPU time a task can accumulate between two reads of sum_exec_runtime
RuntimeIncs == {0, 500000, 52000000}

\* the inputs the budget still allows
IncsLeft == IF budget > 0 THEN RuntimeIncs ELSE {0}
AllocLeft == IF budget > 0 THEN BOOLEAN ELSE {TRUE}

\* module parameter settings: the defaults, and the settings of the tests
Configs ==
  { [alpha |-> 200, gamma |-> 900, epsilon |-> 200, step |-> 5] }

\* the two get_random_u32() draws, reduced as the code reduces them
RDraws == {0, 199, 200, 999}
R2Draws == 0 .. 5
RDrawsLeft == IF budget > 0 THEN RDraws
              ELSE {r \in RDraws : ~LessU32(r, epsilon_permille)}

ZeroTable == [s \in States |-> [a \in Actions |-> 0]]

\* a pid_entry as get_pid_entry initialises it
NewEntry(pid) ==
  [pid |-> pid, prev_runtime |-> 0, qtable |-> ZeroTable,
   prev_state |-> RL_STATE_LOW, prev_action |-> RL_NOOP]

MinOf(S) == CHOOSE x \in S : \A y \in S : x <= y

\* kzalloc: the lowest free address
FreeAddrs(hp) == Addrs \ DOMAIN hp

get_pid_entry_nolookup(table, hp, pid, alloc_ok) ==
  IF ~alloc_ok \/ FreeAddrs(hp) = {}
  THEN [e |-> NULL, table |-> table, heap |-> hp]
  ELSE LET e == MinOf(FreeAddrs(hp))
       IN [e |-> e, table |-> <<e>> \o table,
           heap |-> hp @@ (e :> NewEntry(pid))]

\* find or create; alloc_ok is whether kzalloc succeeds if it is reached
get_pid_entry(table, hp, pid, alloc_ok) ==
  LET found == {i \in 1 .. Len(table) : hp[table[i]].pid = pid}
  IN IF found # {}
     THEN [e |-> table[MinOf(found)], table |-> table, heap |-> hp]
     ELSE IF ~alloc_ok \/ FreeAddrs(hp) = {}
     THEN [e |-> NULL, table |-> table, heap |-> hp]
     ELSE LET e == MinOf(FreeAddrs(hp))
          IN [e |-> e, table |-> <<e>> \o table,
              heap |-> hp @@ (e :> NewEntry(pid))]

\* the nice value apply_action_to_task computes before clamping
new_nice_of(cur_nice, act, step) ==
  IF act = RL_DEC_NICE THEN SubInt(cur_nice, step)
  ELSE IF act = RL_INC_NICE THEN AddInt(cur_nice, step)
  ELSE cur_nice

apply_action_to_task_always(task, act) ==
  LET cur_nice == nice[task]
      new_nice == clamp_nice(new_nice_of(cur_nice, act, action_step))
  IN /\ kmsg' = <<[pid |-> task, action |-> act,
                   old |-> cur_nice, new |-> new_nice]>>
     /\ set_nice_calls' = <<[pid |-> task, nice |-> new_nice]>>
     /\ nice' = [nice EXCEPT ![task] = new_nice]

\* effect of apply_action_to_task on the task, the log and the nice calls
apply_action_to_task(task, act) ==
  LET cur_nice == nice[task]
      new_nice == clamp_nice(new_nice_of(cur_nice, act, action_step))
  IN IF new_nice # cur_nice
     THEN /\ kmsg' = <<[pid |-> task, action |-> act,
                        old |-> cur_nice, new |-> new_nice]>>
          /\ set_nice_calls' = <<[pid |-> task, nice |-> new_nice]>>
          /\ nice' = [nice EXCEPT ![task] = new_nice]
     ELSE /\ kmsg' = <<>>
          /\ set_nice_calls' = <<>>
          /\ nice' = nice

(* ------------------------------- Init ---------------------------------- *)
NoCall == [fn |-> "none"]

\* everything but the module parameters and the harness variables
InitSystemWith(inputs) ==
  /\ pid_table = <<>>
  /\ heap = <<>>
  /\ pid_table_lock = LOCK_FREE
  /\ rl_thread = NULL
  /\ init_ret = 0
  /\ should_stop = FALSE
  /\ mpc = "unloaded"
  /\ exit_state = [t \in Pids |-> EXIT_RUNNING]
  /\ sum_exec_runtime = [t \in Pids |-> 0]
  /\ wpc = "none"
  /\ rcu = FALSE
  /\ todo = <<>>
  /\ p = 0 /\ curr_runtime = 0 /\ delta = 0 /\ st = RL_STATE_LOW
  /\ pe = NULL /\ action = 0 /\ reward = 0
  /\ ticks = 0
  /\ budget = inputs
  /\ set_nice_calls = <<>>
  /\ kmsg = <<>>
  /\ h_obs = [a \in Addrs |-> 0]
  /\ h_cls = [a \in Addrs |-> 0]
  /\ h_delta = [a \in Addrs |-> 0]
  /\ h_drain = [done |-> FALSE, learned |-> {}, looked |-> {}]
  /\ h_fail = {}

InitSystem == InitSystemWith(MaxInputs)

InitIdleHarness ==
  /\ cpc = [c \in Callers |-> "idle"]
  /\ cpid = [c \in Callers |-> 0]
  /\ cret = [c \in Callers |-> NULL]
  /\ args = NoCall
  /\ ret = NoCall

Init ==
  /\ InitSystem
  /\ InitIdleHarness
  /\ nice = [t \in Pids |-> 0]
  /\ \E c \in Configs :
       /\ alpha_permille = c.alpha
       /\ gamma_permille = c.gamma
       /\ epsilon_permille = c.epsilon
       /\ action_step = c.step

(* ------------------------- module lifecycle ---------------------------- *)
harnessvars == <<callervars, unitvars>>
workervars == <<wpc, rcu, todo, localvars, ticks>>

\* rl_init: thread is what kthread_run returns
rl_init(thread) ==
  /\ mpc = "unloaded"
  /\ pid_table_lock' = LOCK_FREE
  /\ IF IS_ERR(thread)
     THEN /\ rl_thread' = NULL
          /\ init_ret' = PTR_ERR(rl_thread')
          /\ wpc' = wpc
     ELSE /\ rl_thread' = thread
          /\ init_ret' = 0
          /\ wpc' = "loop"
  /\ mpc' = IF init_ret' = 0 THEN "loaded" ELSE "failed"
  /\ UNCHANGED <<cfgvars, tablevars, should_stop, taskvars, rcu, todo,
                 localvars, ticks, budget, actvars, histvars, harnessvars>>

\* rl_exit up to the call of kthread_stop, which sets the stop flag
rl_exit_stop ==
  /\ mpc = "loaded"
  /\ IF rl_thread # NULL
     THEN should_stop' = TRUE /\ mpc' = "stopping"
     ELSE should_stop' = should_stop /\ mpc' = "freeing"
  /\ UNCHANGED <<cfgvars, tablevars, pid_table_lock, rl_thread, init_ret,
                 taskvars, workervars, budget, actvars, histvars,
                 harnessvars>>

rl_exit_joined_nowait ==
  /\ mpc = "stopping"
  /\ mpc' = "freeing"
  /\ UNCHANGED <<cfgvars, tablevars, pid_table_lock, rl_thread, init_ret,
                 should_stop, taskvars, workervars, budget, actvars,
                 histvars, harnessvars>>

\* kthread_stop returns once the worker function has returned
rl_exit_joined ==
  /\ mpc = "stopping"
  /\ wpc = "exited"
  /\ mpc' = "freeing"
  /\ UNCHANGED <<cfgvars, tablevars, pid_table_lock, rl_thread, init_ret,
                 should_stop, taskvars, workervars, budget, actvars,
                 histvars, harnessvars>>

\* what the drain leaves behind for the history: the pids whose entry held
\* learned values, and no lookup made yet
DrainRecord ==
  [done |-> TRUE,
   learned |-> {heap[pid_table[i]].pid : i \in
                  {j \in 1 .. Len(pid_table) :
                     heap[pid_table[j]].qtable # ZeroTable}},
   looked |-> {}]

free_all_entries_keep ==
  /\ mpc = "freeing"
  /\ pid_table_lock = LOCK_FREE
  /\ pid_table' = pid_table
  /\ heap' = heap
  /\ mpc' = "exited"
  /\ h_drain' = DrainRecord
  /\ h_obs' = [a \in Addrs |-> 0]
  /\ h_cls' = [a \in Addrs |-> 0]
  /\ h_delta' = [a \in Addrs |-> 0]
  /\ h_fail' = {}
  /\ UNCHANGED <<cfgvars, pid_table_lock, rl_thread, init_ret, should_stop,
                 taskvars, workervars, budget, actvars, harnessvars>>

\* free_all_entries, one critical section of pid_table_lock
free_all_entries ==
  /\ mpc = "freeing"
  /\ pid_table_lock = LOCK_FREE
  /\ pid_table' = <<>>
  /\ heap' = [a \in DOMAIN heap \ {pid_table[i] : i \in 1 .. Len(pid_table)}
                |-> heap[a]]
  /\ mpc' = "exited"
  /\ h_drain' = DrainRecord
  /\ h_obs' = [a \in Addrs |-> 0]
  /\ h_cls' = [a \in Addrs |-> 0]
  /\ h_delta' = [a \in Addrs |-> 0]
  /\ h_fail' = {}
  /\ UNCHANGED <<cfgvars, pid_table_lock, rl_thread, init_ret, should_stop,
                 taskvars, workervars, budget, actvars, harnessvars>>

\* rmmod has completed and insmod loads the module image again: the statics
\* of lines 91-95 are as the image has them, memory that was not freed stays
\* allocated
module_reload ==
  /\ mpc = "exited"
  /\ budget > 0
  /\ budget' = budget - 1
  /\ mpc' = "unloaded"
  /\ pid_table' = <<>>
  /\ rl_thread' = NULL
  /\ init_ret' = 0
  /\ should_stop' = FALSE
  /\ wpc' = "none"
  /\ UNCHANGED <<cfgvars, heap, pid_table_lock, taskvars, rcu, todo,
                 localvars, ticks, actvars, histvars, harnessvars>>

(* ------------------------------ the host ------------------------------- *)
\* The worker looks at a task only when for_each_process reaches it, so a
\* host event is taken at the last moment before that.
AboutToVisit(t) == wpc = "iter" /\ todo # <<>> /\ Head(todo) = t

\* a task exits and stays in the process list as a zombie
ProcExit(t) ==
  /\ AboutToVisit(t)
  /\ budget > 0
  /\ exit_state[t] = EXIT_RUNNING
  /\ exit_state' = [exit_state EXCEPT ![t] = EXIT_ZOMBIE]
  /\ budget' = budget - 1
  /\ UNCHANGED <<cfgvars, tablevars, pid_table_lock, modvars,
                 sum_exec_runtime, nice, workervars, actvars, histvars,
                 harnessvars>>

\* the zombie is reaped and a new task gets the same pid
PidReuse(t) ==
  /\ AboutToVisit(t)
  /\ exit_state[t] = EXIT_ZOMBIE
  /\ exit_state' = [exit_state EXCEPT ![t] = EXIT_RUNNING]
  /\ sum_exec_runtime' = [sum_exec_runtime EXCEPT ![t] = 0]
  /\ nice' = [nice EXCEPT ![t] = 0]
  /\ UNCHANGED <<cfgvars, tablevars, pid_table_lock, modvars, workervars,
                 budget, actvars, histvars, harnessvars>>

(* ------------------------------ rl_worker ------------------------------ *)
AllPids == [i \in 1 .. NumPids |-> i]

\* the locals of the loop body and the record of its calls, out of scope
ResetLocals ==
  /\ p' = 0 /\ curr_runtime' = 0 /\ delta' = 0 /\ st' = RL_STATE_LOW
  /\ pe' = NULL /\ action' = 0 /\ reward' = 0
  /\ set_nice_calls' = <<>> /\ kmsg' = <<>>

WLoop_nostop ==
  /\ wpc = "loop"
  /\ ticks < MaxTicks
  /\ ticks' = ticks + 1
  /\ rcu' = TRUE
  /\ todo' = AllPids
  /\ wpc' = "iter"
  /\ UNCHANGED <<cfgvars, tablevars, pid_table_lock, modvars, taskvars,
                 localvars, budget, actvars, histvars, harnessvars>>

\* the allocation of line 117 asks for GFP_KERNEL memory; such a request may
\* sleep to reclaim memory, a GFP_ATOMIC one never does
GFP_KERNEL == "GFP_KERNEL"
GFP_ATOMIC == "GFP_ATOMIC"
gfp_may_sleep(gfp) == gfp = GFP_KERNEL
get_pid_entry_gfp == GFP_KERNEL

\* the worker's next step calls something that may sleep: get_pid_entry
\* when it gets as far as kzalloc, and msleep_interruptible
WorkerMaySleep ==
  \/ /\ wpc = "get"
     /\ \A i \in 1 .. Len(pid_table) : heap[pid_table[i]].pid # p
     /\ gfp_may_sleep(get_pid_entry_gfp)
  \/ wpc = "sleep"

\* line 220: the loop condition, then rcu_read_lock and for_each_process
WLoop ==
  /\ wpc = "loop"
  /\ IF should_stop
     THEN wpc' = "exited" /\ UNCHANGED <<rcu, todo, ticks>>
     ELSE /\ ticks < MaxTicks
          /\ ticks' = ticks + 1
          /\ rcu' = TRUE
          /\ todo' = AllPids
          /\ wpc' = "iter"
  /\ UNCHANGED <<cfgvars, tablevars, pid_table_lock, modvars, taskvars,
                 localvars, budget, actvars, histvars, harnessvars>>

WIter_reap(inc) ==
  /\ wpc = "iter"
  /\ IF todo = <<>>
     THEN /\ rcu' = FALSE
          /\ wpc' = "sleep"
          /\ UNCHANGED <<todo, p, curr_runtime, sum_exec_runtime, budget,
                         tablevars>>
     ELSE /\ p' = Head(todo)
          /\ todo' = Tail(todo)
          /\ rcu' = rcu
          /\ IF exit_state[p'] = EXIT_ZOMBIE \/ exit_state[p'] = EXIT_DEAD
             THEN /\ wpc' = "iter"
                  /\ pid_table' = SelectSeq(pid_table, LAMBDA a : heap[a].pid # p')
                  /\ heap' = [a \in {b \in DOMAIN heap : heap[b].pid # p'}
                                |-> heap[a]]
                  /\ UNCHANGED <<curr_runtime, sum_exec_runtime, budget>>
             ELSE /\ sum_exec_runtime' =
                       [sum_exec_runtime EXCEPT ![p'] = @ + inc]
                  /\ curr_runtime' = sum_exec_runtime'[p']
                  /\ budget' = IF inc = 0 THEN budget
                               ELSE budget - 1
                  /\ wpc' = "lock"
                  /\ UNCHANGED tablevars
  /\ UNCHANGED <<cfgvars, pid_table_lock, modvars, exit_state,
                 nice, delta, st, pe, action, reward, ticks, actvars,
                 histvars, harnessvars>>

\* lines 224-233: next process, exit_state test, read of sum_exec_runtime;
\* inc is the CPU time the task has run since its runtime was last read
WIter(inc) ==
  /\ wpc = "iter"
  /\ IF todo = <<>>
     THEN /\ rcu' = FALSE
          /\ wpc' = "sleep"
          /\ UNCHANGED <<todo, p, curr_runtime, sum_exec_runtime, budget>>
     ELSE /\ p' = Head(todo)
          /\ todo' = Tail(todo)
          /\ rcu' = rcu
          /\ IF exit_state[p'] = EXIT_ZOMBIE \/ exit_state[p'] = EXIT_DEAD
             THEN /\ wpc' = "iter"
                  /\ UNCHANGED <<curr_runtime, sum_exec_runtime, budget>>
             ELSE /\ sum_exec_runtime' =
                       [sum_exec_runtime EXCEPT ![p'] = @ + inc]
                  /\ curr_runtime' = sum_exec_runtime'[p']
                  /\ budget' = IF inc = 0 THEN budget
                               ELSE budget - 1
                  /\ wpc' = "lock"
  /\ UNCHANGED <<cfgvars, tablevars, pid_table_lock, modvars, exit_state,
                 nice, delta, st, pe, action, reward, ticks, actvars,
                 histvars, harnessvars>>

\* line 235
WLock ==
  /\ wpc = "lock"
  /\ pid_table_lock = LOCK_FREE
  /\ pid_table_lock' = WORKER
  /\ wpc' = "get"
  /\ UNCHANGED <<cfgvars, tablevars, modvars, taskvars, rcu, todo,
                 localvars, ticks, budget, actvars, histvars, harnessvars>>

\* history of a freshly allocated entry starts empty
HistAfterGet(h, e) ==
  IF e = NULL \/ e \in DOMAIN heap THEN h ELSE [h EXCEPT ![e] = 0]

\* line 236
WGet(alloc_ok) ==
  /\ wpc = "get"
  /\ LET r == get_pid_entry(pid_table, heap, p, alloc_ok)
         reached == \A i \in 1 .. Len(pid_table) : heap[pid_table[i]].pid # p
     IN /\ pe' = r.e
        /\ pid_table' = r.table
        /\ heap' = r.heap
        /\ h_obs' = HistAfterGet(h_obs, r.e)
        /\ h_cls' = HistAfterGet(h_cls, r.e)
        /\ h_delta' = HistAfterGet(h_delta, r.e)
        /\ UNCHANGED <<h_drain, h_fail>>
        /\ budget' = IF reached /\ ~alloc_ok
                     THEN budget - 1 ELSE budget
  /\ wpc' = "unlock"
  /\ UNCHANGED <<cfgvars, pid_table_lock, modvars, taskvars, rcu, todo, p,
                 curr_runtime, delta, st, action, reward, ticks, actvars,
                 harnessvars>>

\* line 237
WUnlock ==
  /\ wpc = "unlock"
  /\ pid_table_lock' = LOCK_FREE
  /\ wpc' = "check"
  /\ h_drain' = IF h_drain.done
                THEN [h_drain EXCEPT !.looked = @ \cup {p}] ELSE h_drain
  /\ UNCHANGED <<cfgvars, tablevars, modvars, taskvars, rcu, todo,
                 localvars, ticks, budget, actvars, h_obs, h_cls, h_delta,
                 h_fail, harnessvars>>

Bump(h, e) == [h EXCEPT ![e] = IF @ < 2 THEN @ + 1 ELSE @]

delta_of_noclamp(curr, prev) == curr - prev

\* lines 246-247: the CPU time used since the last reading, never negative
delta_of(curr, prev) == IF curr >= prev THEN curr - prev ELSE 0

WCheck_break ==
  /\ wpc = "check"
  /\ IF pe = NULL
     THEN /\ wpc' = "iter"
          /\ h_fail' = h_fail \cup {p}
          /\ ResetLocals
          /\ todo' = <<>>
          /\ UNCHANGED <<heap, h_obs>>
     ELSE IF heap[pe].prev_runtime = 0
     THEN /\ heap' = [heap EXCEPT ![pe].prev_runtime = curr_runtime]
          /\ wpc' = "iter"
          /\ h_obs' = Bump(h_obs, pe)
          /\ h_fail' = h_fail \ {p}
          /\ ResetLocals
          /\ todo' = todo
     ELSE /\ delta' = delta_of(curr_runtime, heap[pe].prev_runtime)
          /\ st' = cpu_delta_to_state(delta')
          /\ wpc' = "choose"
          /\ h_obs' = Bump(h_obs, pe)
          /\ h_fail' = h_fail \ {p}
          /\ UNCHANGED <<heap, p, curr_runtime, pe, action, reward, actvars,
                         todo>>
  /\ UNCHANGED <<cfgvars, pid_table, pid_table_lock, modvars, taskvars, rcu,
                 ticks, budget, h_cls, h_delta, h_drain, harnessvars>>

\* lines 238-248: allocation failure, first observation, else delta and state
WCheck ==
  /\ wpc = "check"
  /\ IF pe = NULL
     THEN /\ wpc' = "iter"
          /\ h_fail' = h_fail \cup {p}
          /\ ResetLocals
          /\ UNCHANGED <<heap, h_obs, todo>>
     ELSE IF heap[pe].prev_runtime = 0
     THEN /\ heap' = [heap EXCEPT ![pe].prev_runtime = curr_runtime]
          /\ wpc' = "iter"
          /\ h_obs' = Bump(h_obs, pe)
          /\ h_fail' = h_fail \ {p}
          /\ ResetLocals
          /\ todo' = todo
     ELSE /\ delta' = delta_of(curr_runtime, heap[pe].prev_runtime)
          /\ st' = cpu_delta_to_state(delta')
          /\ wpc' = "choose"
          /\ h_obs' = Bump(h_obs, pe)
          /\ h_fail' = h_fail \ {p}
          /\ UNCHANGED <<heap, p, curr_runtime, pe, action, reward, actvars,
                         todo>>
  /\ UNCHANGED <<cfgvars, pid_table, pid_table_lock, modvars, taskvars, rcu,
                 ticks, budget, h_cls, h_delta, h_drain, harnessvars>>

\* line 251
WChoose(r, r2) ==
  /\ wpc = "choose"
  /\ action' = choose_action(heap[pe], st, epsilon_permille, r, r2)
  /\ budget' = IF LessU32(r, epsilon_permille)
               THEN budget - 1 ELSE budget
  /\ wpc' = "apply"
  /\ UNCHANGED <<cfgvars, tablevars, pid_table_lock, modvars, taskvars, rcu,
                 todo, p, curr_runtime, delta, st, pe, reward, ticks,
                 actvars, histvars, harnessvars>>

\* line 252
WApply ==
  /\ wpc = "apply"
  /\ apply_action_to_task(p, action)
  /\ wpc' = "update"
  /\ UNCHANGED <<cfgvars, tablevars, pid_table_lock, modvars, exit_state,
                 sum_exec_runtime, rcu, todo, localvars, ticks, budget,
                 histvars, harnessvars>>

reward_of_micro(d) == -TruncDiv(d, 1000)

\* the reward of line 255, from this tick's delta
reward_of(d) == -TruncDiv(d, 1000000)

\* the guard of line 257
valid_action(a) == a >= 0 /\ a < NUM_ACTIONS

WUpdate_curaction ==
  /\ wpc = "update"
  /\ reward' = reward_of(delta)
  /\ heap' = IF valid_action(heap[pe].prev_action)
             THEN [heap EXCEPT ![pe] =
                     q_update(@, st, action, reward', st,
                              alpha_permille, gamma_permille)]
             ELSE heap
  /\ wpc' = "book"
  /\ UNCHANGED <<cfgvars, pid_table, pid_table_lock, modvars, taskvars, rcu,
                 todo, p, curr_runtime, delta, st, pe, action, ticks,
                 budget, actvars, histvars, harnessvars>>

\* lines 255-259
WUpdate ==
  /\ wpc = "update"
  /\ reward' = reward_of(delta)
  /\ heap' = IF valid_action(heap[pe].prev_action)
             THEN [heap EXCEPT ![pe] =
                     q_update(@, @.prev_state, @.prev_action, reward', st,
                              alpha_permille, gamma_permille)]
             ELSE heap
  /\ wpc' = "book"
  /\ UNCHANGED <<cfgvars, pid_table, pid_table_lock, modvars, taskvars, rcu,
                 todo, p, curr_runtime, delta, st, pe, action, ticks,
                 budget, actvars, histvars, harnessvars>>

\* lines 261-265, and the end of the loop body
WBook ==
  /\ wpc = "book"
  /\ heap' = [heap EXCEPT ![pe].prev_state = st,
                          ![pe].prev_action = action,
                          ![pe].prev_runtime = curr_runtime]
  /\ h_cls' = Bump(h_cls, pe)
  /\ h_delta' = [h_delta EXCEPT ![pe] = delta]
  /\ wpc' = "iter"
  /\ ResetLocals
  /\ UNCHANGED <<cfgvars, pid_table, pid_table_lock, modvars, taskvars, rcu,
                 todo, ticks, budget, h_obs, h_drain, h_fail, harnessvars>>

\* line 270: msleep_interruptible returns, by timeout or by the wake-up
WSleep ==
  /\ wpc = "sleep"
  /\ wpc' = "loop"
  /\ UNCHANGED <<cfgvars, tablevars, pid_table_lock, modvars, taskvars, rcu,
                 todo, localvars, ticks, budget, actvars, histvars,
                 harnessvars>>

rl_worker ==
  \/ WLoop
  \/ \E inc \in IncsLeft : WIter(inc)
  \/ WLock
  \/ \E alloc_ok \in AllocLeft : WGet(alloc_ok)
  \/ WUnlock
  \/ WCheck
  \/ \E r \in RDrawsLeft, r2 \in R2Draws : WChoose(r, r2)
  \/ WApply
  \/ WUpdate
  \/ WBook
  \/ WSleep

KthreadRunResults == {THREAD_PTR, ERR_PTR(-ENOMEM)}

Next ==
  \/ \E thread \in KthreadRunResults : rl_init(thread)
  \/ rl_exit_stop
  \/ rl_exit_joined
  \/ free_all_entries
  \/ \E t \in Pids : ProcExit(t)
  \/ \E t \in Pids : PidReuse(t)
  \/ rl_worker

Spec == Init /\ [][Next]_vars

\* the loaded module while nothing unloads it
NextRun ==
  \/ \E thread \in KthreadRunResults : rl_init(thread)
  \/ \E t \in Pids : ProcExit(t)
  \/ \E t \in Pids : PidReuse(t)
  \/ rl_worker

SpecRun == Init /\ [][NextRun]_vars

\* the module over processes that stay alive
NextAlive ==
  \/ \E thread \in KthreadRunResults : rl_init(thread)
  \/ rl_exit_stop
  \/ rl_exit_joined
  \/ free_all_entries
  \/ rl_worker

SpecAlive == Init /\ [][NextAlive]_vars

\* The scheduler runs the worker thread whenever it can take a step, and the
\* thread that unloads the module goes through rl_exit without waiting for
\* anything but the worker's exit.
InitFair ==
  /\ InitSystemWith(MaxInputs - 1)
  /\ InitIdleHarness
  /\ nice = [t \in Pids |-> 0]
  /\ \E c \in Configs :
       /\ alpha_permille = c.alpha
       /\ gamma_permille = c.gamma
       /\ epsilon_permille = c.epsilon
       /\ action_step = c.step

SpecFair ==
  /\ InitFair
  /\ [][NextAlive]_vars
  /\ WF_vars(rl_worker)
  /\ WF_vars(rl_exit_joined)
  /\ WF_vars(free_all_entries)

\* the module's life with reloads after an unload, over processes that stay
\* alive
NextReload == NextAlive \/ module_reload

SpecReload == Init /\ [][NextReload]_vars

TypeOK ==
  /\ wpc \in {"none", "loop", "iter", "lock", "get", "unlock", "check",
              "choose", "apply", "update", "book", "sleep", "exited"}
  /\ mpc \in {"unloaded", "loaded", "failed", "stopping", "freeing", "exited"}
  /\ \A a \in DOMAIN heap : heap[a].prev_action \in Actions

(* ---------------- harness: the functions, one call each ---------------- *)
Row(x, y, z) == [a \in Actions |-> IF a = 0 THEN x ELSE IF a = 1 THEN y ELSE z]
ZeroRow == Row(0, 0, 0)

\* deltas around the two thresholds
DeltaVals == {0, 1, 999999, 1000000, 1000001, 25000000,
              49999999, 50000000, 50000001, 52000000}
\* Q-values an entry can hold
QVals == {-10, -1, 0}
\* rows for choose_action, with every pattern of ties
ChooseRows == {Row(x, y, z) : x \in QVals, y \in QVals, z \in QVals}
\* tables for q_update
UpdateRows == {ZeroRow, Row(-10, -1, 0), Row(-1, -1, -10)}
UpdateTables == [States -> UpdateRows]
RewardVals == {-52, 0}
EpsilonVals == {-1, 0, 200, 1000}
RateVals == {<<1000, 0>>, <<200, 900>>, <<0, 0>>, <<0, 1000>>, <<1000, 1000>>}
\* readings of sum_exec_runtime
RuntimeVals == {0, 500000, 52000000, 104000000}

EntryWith(table) == [NewEntry(1) EXCEPT !.qtable = table]

InitUnit ==
  /\ InitSystem
  /\ cpc = [c \in Callers |-> "idle"]
  /\ cpid = [c \in Callers |-> 0]
  /\ cret = [c \in Callers |-> NULL]
  /\ nice = [t \in Pids |-> 0]
  /\ action_step = 5
  /\ ret = NoCall
  /\ \/ /\ \E d1 \in DeltaVals, d2 \in DeltaVals :
             args = [fn |-> "classify", d1 |-> d1, d2 |-> d2]
        /\ alpha_permille = 200 /\ gamma_permille = 900
        /\ epsilon_permille = 200
     \/ /\ \E row \in ChooseRows, s \in States :
             args = [fn |-> "choose", s |-> s,
                     pe |-> EntryWith([ZeroTable EXCEPT ![s] = row])]
        /\ alpha_permille = 200 /\ gamma_permille = 900
        /\ epsilon_permille \in EpsilonVals
     \/ /\ \E t \in UpdateTables, s \in States, a \in Actions,
              rw \in RewardVals, s_next \in States :
             args = [fn |-> "update", pe |-> EntryWith(t), s |-> s, a |-> a,
                     reward |-> rw, s_next |-> s_next]
        /\ \E rates \in RateVals :
             alpha_permille = rates[1] /\ gamma_permille = rates[2]
        /\ epsilon_permille = 200
     \/ /\ \E curr \in RuntimeVals, prev \in RuntimeVals \ {0} :
             args = [fn |-> "reward", curr |-> curr, prev |-> prev]
        /\ alpha_permille = 200 /\ gamma_permille = 900
        /\ epsilon_permille = 200

systemvars == <<tablevars, pid_table_lock, modvars, taskvars, workervars,
                budget, actvars, histvars>>

CallClassify ==
  /\ args.fn = "classify" /\ ret = NoCall
  /\ ret' = [fn |-> "classify", s1 |-> cpu_delta_to_state(args.d1),
             s2 |-> cpu_delta_to_state(args.d2)]
  /\ UNCHANGED <<cfgvars, systemvars, callervars, args>>

CallChoose(r, r2) ==
  /\ args.fn = "choose" /\ ret = NoCall
  /\ ret' = [fn |-> "choose", r |-> r, r2 |-> r2,
             a |-> choose_action(args.pe, args.s, epsilon_permille, r, r2)]
  /\ UNCHANGED <<cfgvars, systemvars, callervars, args>>

CallUpdate ==
  /\ args.fn = "update" /\ ret = NoCall
  /\ ret' = [fn |-> "update",
             pe |-> q_update(args.pe, args.s, args.a, args.reward,
                             args.s_next, alpha_permille, gamma_permille)]
  /\ UNCHANGED <<cfgvars, systemvars, callervars, args>>

\* lines 246-255 on one pair of readings
CallReward ==
  /\ args.fn = "reward" /\ ret = NoCall
  /\ ret' = [fn |-> "reward", delta |-> delta_of(args.curr, args.prev),
             reward |-> reward_of(delta_of(args.curr, args.prev))]
  /\ UNCHANGED <<cfgvars, systemvars, callervars, args>>

NextUnit ==
  \/ CallClassify
  \/ CallReward
  \/ \E r \in RDraws, r2 \in R2Draws : CallChoose(r, r2)
  \/ CallUpdate

SpecUnit == InitUnit /\ [][NextUnit]_vars

(* ---------------- harness: repeated apply_action_to_task ---------------- *)
NiceVals == -20 .. 19
\* positive action_step settings, up to the largest int
Steps == {5, 39, 40, INT_MAX}

InitActuator ==
  /\ InitSystem
  /\ InitIdleHarness
  /\ alpha_permille = 200 /\ gamma_permille = 900 /\ epsilon_permille = 200
  /\ action_step \in Steps
  /\ \E n \in NiceVals : nice = [t \in Pids |-> n]

\* a call apply_action_to_task(t, a); p and action hold its arguments
CallApply(t, a) ==
  /\ p' = t
  /\ action' = a
  /\ apply_action_to_task(t, a)
  /\ UNCHANGED <<cfgvars, tablevars, pid_table_lock, modvars, exit_state,
                 sum_exec_runtime, wpc, rcu, todo, curr_runtime, delta, st,
                 pe, reward, ticks, budget, histvars, harnessvars>>

NextActuator == \E t \in Pids, a \in Actions : CallApply(t, a)

SpecActuator == InitActuator /\ [][NextActuator]_vars

(* ------------- harness: callers of lines 235-237, interleaved ----------- *)
InitStore ==
  /\ InitSystem
  /\ InitIdleHarness
  /\ alpha_permille = 200 /\ gamma_permille = 900 /\ epsilon_permille = 200
  /\ action_step = 5
  /\ nice = [t \in Pids |-> 0]

storeframe == <<cfgvars, modvars, taskvars, workervars, budget, actvars,
                histvars, unitvars>>

\* a caller sets out to look up pid
CCall(c, pid) ==
  /\ cpc[c] \in {"idle", "done"}
  /\ cpc' = [cpc EXCEPT ![c] = "lock"]
  /\ cpid' = [cpid EXCEPT ![c] = pid]
  /\ cret' = [cret EXCEPT ![c] = NULL]
  /\ UNCHANGED <<tablevars, pid_table_lock, storeframe>>

\* line 235
CLock(c) ==
  /\ cpc[c] = "lock"
  /\ pid_table_lock = LOCK_FREE
  /\ pid_table_lock' = c
  /\ cpc' = [cpc EXCEPT ![c] = "get"]
  /\ UNCHANGED <<tablevars, cpid, cret, storeframe>>

\* line 236
CGet(c, alloc_ok) ==
  /\ cpc[c] = "get"
  /\ LET r == get_pid_entry(pid_table, heap, cpid[c], alloc_ok)
     IN /\ cret' = [cret EXCEPT ![c] = r.e]
        /\ pid_table' = r.table
        /\ heap' = r.heap
  /\ cpc' = [cpc EXCEPT ![c] = "unlock"]
  /\ UNCHANGED <<pid_table_lock, cpid, storeframe>>

\* line 237
CUnlock(c) ==
  /\ cpc[c] = "unlock"
  /\ pid_table_lock' = LOCK_FREE
  /\ cpc' = [cpc EXCEPT ![c] = "done"]
  /\ UNCHANGED <<tablevars, cpid, cret, storeframe>>

NextStore ==
  \/ \E c \in Callers, pid \in Pids : CCall(c, pid)
  \/ \E c \in Callers : CLock(c)
  \/ \E c \in Callers, alloc_ok \in BOOLEAN : CGet(c, alloc_ok)
  \/ \E c \in Callers : CUnlock(c)

SpecStore == InitStore /\ [][NextStore]_vars

(* ------------------------------ properties ----------------------------- *)
InTable(a) == \E i \in 1 .. Len(pid_table) : pid_table[i] = a

\* C1: on the first tick at which an entry is classified (its prev_action is
\* still the initial one) the loop makes no Q-value update, so once the
\* update step of that tick is over the entry's qtable is still all zero.
C1_NoUpdateOnFirstClassifiedTick ==
  (wpc = "book" /\ h_cls[pe] = 0) => heap[pe].qtable = ZeroTable

\* C2: an entry is skipped for lack of history on its first observation
\* only: the first observation records prev_runtime and nothing else, every
\* later observation is classified and goes on to choose an action.
C2_SkippedOnFirstObservationOnly ==
  [][(wpc = "check" /\ wpc' # "check" /\ pe # NULL) =>
       IF h_obs[pe] = 0
       THEN /\ wpc' = "iter"
            /\ heap' = [heap EXCEPT ![pe].prev_runtime = curr_runtime]
       ELSE wpc' = "choose"]_vars

\* the step of rl_worker that computes the reward and updates the Q-value
UpdateStep == wpc = "update" /\ wpc' = "book"

\* C3 as stated: when an update is made for an entry that was classified on
\* the tick before, the reward is the negated millisecond count of that
\* prior tick's delta.
C3_RewardFromPriorDelta ==
  [][(UpdateStep /\ h_cls[pe] >= 1 /\ heap[pe].prev_action \in Actions) =>
       reward' = -(h_delta[pe] \div 1000000)]_vars

\* C3 amended: the reward fed to the update of
\* qtable[prev_state][prev_action] is the negated millisecond count of the
\* delta of the current tick, the one just classified into the next state.
C3_RewardFromCurrentDelta ==
  [][(UpdateStep /\ heap[pe].prev_action \in Actions) =>
       /\ reward' = -(delta \div 1000000)
       /\ heap'[pe].qtable[heap[pe].prev_state][heap[pe].prev_action] =
            q_update(heap[pe], heap[pe].prev_state, heap[pe].prev_action,
                     -(delta \div 1000000), st, alpha_permille,
                     gamma_permille).qtable[heap[pe].prev_state]
                                           [heap[pe].prev_action]]_vars

\* C3 witness: the tick before had delta 500,000 ns (LOW, action 0), this
\* tick's delta 52,000,000 ns classifies HIGH, and the update of
\* qtable[LOW][0] has been made with reward -52.
C3_Witness ==
  /\ wpc = "book"
  /\ h_cls[pe] >= 1
  /\ h_delta[pe] = 500000
  /\ heap[pe].prev_state = RL_STATE_LOW
  /\ heap[pe].prev_action = RL_DEC_NICE
  /\ delta = 52000000
  /\ st = RL_STATE_HIGH
  /\ reward = -52
  /\ heap[pe].qtable[RL_STATE_LOW][RL_DEC_NICE] # 0

\* C4: when rl_init has returned and no worker was started, the value it
\* returned is not the success value 0.
C4_StartupFailureReported ==
  (mpc # "unloaded" /\ wpc = "none") => init_ret # 0

\* C5: whatever actions are applied, from a nice value in [-20, 19] and with
\* any positive step, every task's nice value and every value handed to
\* set_user_nice lies in [-20, 19].
C5_NiceInRange ==
  /\ \A t \in Pids : nice[t] >= -20 /\ nice[t] <= 19
  /\ \A i \in 1 .. Len(set_nice_calls) :
       set_nice_calls[i].nice >= -20 /\ set_nice_calls[i].nice <= 19

\* C5 witness: DECREASE applied at nice -18 with step 5 has written -20.
C5_Witness ==
  /\ action_step = 5
  /\ action = RL_DEC_NICE
  /\ Len(kmsg) = 1
  /\ kmsg[1].old = -18
  /\ kmsg[1].new = -20
  /\ set_nice_calls = <<[pid |-> p, nice |-> -20]>>
  /\ nice[p] = -20

\* the priority the Actuator aims at: old -/+ step clamped into [-20, 19]
ClampedTarget(old, act, step) ==
  IF act = RL_DEC_NICE THEN (IF step >= old + 20 THEN -20 ELSE old - step)
  ELSE IF act = RL_INC_NICE THEN (IF step >= 19 - old THEN 19 ELSE old + step)
  ELSE old

\* steps for which old + step and old - step are representable in an int
StepInRange == action_step <= INT_MAX - 19

ChosenRow == args.pe.qtable[args.s]

\* C7: with epsilon 0 choose_action returns the lowest index among those
\* holding the row's maximum; for every epsilon it returns 0, 1 or 2.
C7_GreedyLowestIndex ==
  ret.fn = "choose" =>
    /\ ret.a \in {0, 1, 2}
    /\ epsilon_permille = 0 =>
         /\ \A b \in Actions : ChosenRow[b] <= ChosenRow[ret.a]
         /\ \A b \in Actions : b < ret.a => ChosenRow[b] < ChosenRow[ret.a]

\* C7 witness: epsilon 0, the maximum is shared by indices 1 and 2 only, and
\* index 1 was returned.
C7_Witness ==
  /\ ret.fn = "choose"
  /\ epsilon_permille = 0
  /\ ChosenRow[1] = ChosenRow[2]
  /\ ChosenRow[0] < ChosenRow[1]
  /\ ret.a = 1

\* C8: with alpha 1000 and gamma 0, q_update leaves qtable[s][a] equal to the
\* reward, whatever its prior value, the next state and the next row.
C8_FullRateSetsReward ==
  (ret.fn = "update" /\ alpha_permille = 1000 /\ gamma_permille = 0) =>
    ret.pe.qtable[args.s][args.a] = args.reward

\* C8 witness: alpha 1000, gamma 0, a prior value different from the reward,
\* a next row that is not all zero, and the update has been made.
C8_Witness ==
  /\ ret.fn = "update"
  /\ alpha_permille = 1000 /\ gamma_permille = 0
  /\ args.pe.qtable[args.s][args.a] # args.reward
  /\ args.pe.qtable[args.s][args.a] # 0
  /\ args.pe.qtable[args.s_next] # ZeroRow
  /\ args.reward = -52
  /\ ret.pe.qtable[args.s][args.a] = -52

\* the state the thresholds of the design assign to a delta
BucketOf(d) ==
  CASE d < 1000000 -> RL_STATE_LOW
    [] d >= 1000000 /\ d < 50000000 -> RL_STATE_MED
    [] d >= 50000000 -> RL_STATE_HIGH

\* C9: cpu_delta_to_state returns LOW exactly below 1,000,000 ns, MED exactly
\* from 1,000,000 to below 50,000,000 ns, HIGH exactly from 50,000,000 ns;
\* so a smaller delta never gets a higher state.
C9_ThresholdsAndMonotonic ==
  ret.fn = "classify" =>
    /\ ret.s1 = BucketOf(args.d1)
    /\ ret.s2 = BucketOf(args.d2)
    /\ args.d1 < args.d2 => ret.s1 <= ret.s2

\* C9 witness: the two deltas on either side of the 50 ms boundary.
C9_Witness ==
  /\ ret.fn = "classify"
  /\ args.d1 = 49999999 /\ ret.s1 = RL_STATE_MED
  /\ args.d2 = 50000000 /\ ret.s2 = RL_STATE_HIGH

\* a caller that has its result
Returned(c) == cpc[c] \in {"unlock", "done"}

\* C10: the table never holds two entries with the same pid, every allocated
\* entry is in the table, and callers that asked for the same pid and got an
\* entry got the same one, the table's entry for that pid.
C10_OneEntryPerPid ==
  /\ \A i, j \in 1 .. Len(pid_table) :
       heap[pid_table[i]].pid = heap[pid_table[j]].pid => i = j
  /\ \A a \in DOMAIN heap : InTable(a)
  /\ \A c \in Callers :
       (Returned(c) /\ cret[c] # NULL) =>
         InTable(cret[c]) /\ heap[cret[c]].pid = cpid[c]
  /\ \A c1, c2 \in Callers :
       (Returned(c1) /\ Returned(c2) /\ cpid[c1] = cpid[c2]
          /\ cret[c1] # NULL /\ cret[c2] # NULL) => cret[c1] = cret[c2]

\* C10 witness: two callers asked for the same pid, both have returned with
\* the same entry, and the table holds that one entry.
C10_Witness ==
  /\ \E c1, c2 \in Callers :
       /\ c1 # c2
       /\ cpc[c1] = "done" /\ cpc[c2] = "done"
       /\ cpid[c1] = cpid[c2]
       /\ cret[c1] # NULL
       /\ cret[c1] = cret[c2]
  /\ Len(pid_table) = 1


\* C11: after the drain the table is empty and no entry is left allocated;
\* the first lookup of a pid after the drain returns a fresh entry:
\* prev_runtime 0, all-zero qtable, prev_state LOW, prev_action no-op.
C11_FreshAfterDrain ==
  /\ mpc = "exited" => (pid_table = <<>> /\ heap = <<>>)
  /\ (h_drain.done /\ wpc = "unlock" /\ pe # NULL /\ p \notin h_drain.looked)
       => heap[pe] = NewEntry(p)

\* C11 witness: a pid whose entry held learned values when it was drained
\* is looked up for the first time after the drain and gets a fresh entry.
C11_Witness ==
  /\ h_drain.done
  /\ wpc = "unlock"
  /\ pe # NULL
  /\ p \in h_drain.learned
  /\ p \notin h_drain.looked
  /\ heap[pe] = NewEntry(p)


HasEntry(t) == \E i \in 1 .. Len(pid_table) : heap[pid_table[i]].pid = t

\* the entry of t has been brought up to the CPU time of t
Processed(t) ==
  \E i \in 1 .. Len(pid_table) :
    /\ heap[pid_table[i]].pid = t
    /\ heap[pid_table[i]].prev_runtime = sum_exec_runtime[t]

\* C12: a failed allocation adds no entry; the pass then continues with the
\* remaining processes, and nothing is applied or updated for the failed
\* one; at the end of a pass every running process except those whose
\* allocation failed has been processed, and those have no entry; the next
\* pass enumerates every process again.
C12_AllocFailureSkipsOnlyThatProcess ==
  [][ /\ (wpc = "get" /\ wpc' = "unlock" /\ pe' = NULL)
           => UNCHANGED <<pid_table, heap>>
      /\ (wpc = "check" /\ wpc' # "check" /\ pe = NULL)
           => /\ wpc' = "iter"
              /\ todo' = todo
              /\ rcu' = rcu
              /\ set_nice_calls' = <<>>
              /\ UNCHANGED <<pid_table, heap, nice>>
      /\ (wpc = "iter" /\ wpc' = "sleep")
           => \A t \in Pids :
                /\ (exit_state[t] = EXIT_RUNNING /\ t \notin h_fail)
                     => Processed(t)
                /\ t \in h_fail => ~HasEntry(t)
      /\ (wpc = "loop" /\ wpc' = "iter") => todo' = AllPids
    ]_vars

\* C12 witness: in the second pass, the process whose allocation failed in
\* the first pass is looked up again and gets its entry, while a process
\* enumerated after it already has the entry made for it in the first pass.
C12_Witness ==
  /\ ticks = 2
  /\ wpc = "unlock"
  /\ pe # NULL
  /\ p \in h_fail
  /\ \E t \in Pids : t > p /\ HasEntry(t)


\* C13: once the stop flag is set the worker starts no new pass, and the
\* system reaches the state where the worker has exited, rl_exit has
\* drained the table and nothing is left allocated.
C13_StopLeadsToDrained ==
  /\ [][should_stop => ticks' = ticks]_vars
  /\ should_stop ~> (wpc = "exited" /\ mpc = "exited" /\ pid_table = <<>>
                       /\ heap = <<>>)

\* C13 witness: the stop flag was set in the middle of a pass over a table
\* with entries; the worker has exited and the drain has run.
C13_Witness ==
  /\ should_stop
  /\ wpc = "exited"
  /\ mpc = "exited"
  /\ pid_table = <<>>
  /\ h_drain.learned # {}


BookStep == wpc = "book" /\ wpc' = "iter"

\* every entry but the worker's current one is as it was
OthersUnchanged ==
  /\ pid_table' = pid_table
  /\ DOMAIN heap' = DOMAIN heap
  /\ \A a \in DOMAIN heap : a # pe => heap'[a] = heap[a]

\* C14: in a tick that classifies a process, choosing and applying the
\* action leave every entry alone; the update is q_update(prev_state,
\* prev_action, -(delta / 1000000), st), which changes at most the cell
\* qtable[prev_state][prev_action] of that entry; the end of the tick sets
\* prev_state, prev_action and prev_runtime to this tick's state, action
\* and CPU time and leaves the qtable alone; no other entry changes.
C14_UpdateFrame ==
  [][ /\ (wpc \in {"choose", "apply"}) => UNCHANGED <<pid_table, heap>>
      /\ UpdateStep =>
           /\ heap[pe].prev_runtime # 0
           /\ OthersUnchanged
           /\ heap'[pe] = q_update(heap[pe], heap[pe].prev_state,
                                   heap[pe].prev_action,
                                   -(delta \div 1000000), st,
                                   alpha_permille, gamma_permille)
           /\ \A s \in States, a \in Actions :
                (s # heap[pe].prev_state \/ a # heap[pe].prev_action)
                  => heap'[pe].qtable[s][a] = heap[pe].qtable[s][a]
           /\ heap'[pe].pid = heap[pe].pid
           /\ heap'[pe].prev_state = heap[pe].prev_state
           /\ heap'[pe].prev_action = heap[pe].prev_action
           /\ heap'[pe].prev_runtime = heap[pe].prev_runtime
      /\ BookStep =>
           /\ OthersUnchanged
           /\ heap'[pe].qtable = heap[pe].qtable
           /\ heap'[pe].pid = heap[pe].pid
           /\ heap'[pe].prev_state = st
           /\ heap'[pe].prev_action = action
           /\ heap'[pe].prev_runtime = curr_runtime
    ]_vars

\* C14 witness: the update has written a non-zero value into
\* qtable[prev_state][prev_action] while the state and the action of this
\* tick name another cell, and another process has its entry in the table.
C14_Witness ==
  /\ wpc = "book"
  /\ Len(pid_table) >= 2
  /\ heap[pe].qtable[heap[pe].prev_state][heap[pe].prev_action] # 0
  /\ (st # heap[pe].prev_state \/ action # heap[pe].prev_action)
  /\ \A s \in States, a \in Actions :
       (s # heap[pe].prev_state \/ a # heap[pe].prev_action)
         => heap[pe].qtable[s][a] = 0


\* C15: whenever the worker is about to call something that may sleep, it
\* does not hold pid_table_lock and is outside the RCU read-side critical
\* section of the process enumeration.
C15_NoSleepInAtomicContext ==
  WorkerMaySleep => (pid_table_lock # WORKER /\ ~rcu)


\* the worker is in the part of the loop body that uses pe
WorkerUsesEntry ==
  wpc \in {"check", "choose", "apply", "update", "book"} /\ pe # NULL

\* C16: the entry the worker works on is allocated and linked in the table,
\* also after the stop flag has been set; an entry is released only by the
\* step that drains the table, and that step is taken only when no worker
\* runs (it has exited, or it was never started).
C16_NoUseAfterFree ==
  /\ [](WorkerUsesEntry => (pe \in DOMAIN heap /\ InTable(pe)))
  /\ [][(DOMAIN heap \ DOMAIN heap' # {})
          => /\ mpc = "freeing" /\ mpc' = "exited"
             /\ wpc \in {"none", "exited"}
             /\ pid_table' = <<>>]_vars

\* C16 witness: the stop flag was set in the middle of a pass and the
\* worker goes on to write the entry of the process it is looking at.
C16_Witness ==
  /\ should_stop
  /\ mpc = "stopping"
  /\ wpc = "book"
  /\ pe \in DOMAIN heap
  /\ todo # <<>>


TablePids == {heap[pid_table[i]].pid : i \in 1 .. Len(pid_table)}

\* the address of the entry of pid t, NULL when it has none
EntryOf(t) ==
  IF HasEntry(t)
  THEN pid_table[CHOOSE i \in 1 .. Len(pid_table) : heap[pid_table[i]].pid = t]
  ELSE NULL

\* C17: while the worker runs no step takes an entry out of the table or
\* changes the pid of one; the entry of a process that has exited keeps its
\* qtable, prev_state and prev_action; a lookup of a pid that has an entry
\* returns that entry as it is, also when the pid now names a new process,
\* and a CPU time below prev_runtime gives delta 0.
C17_EntriesOutliveProcesses ==
  [][ /\ (wpc \notin {"none", "exited"}
            /\ <<pid_table, heap>>' # <<pid_table, heap>>) =>
           /\ TablePids \subseteq TablePids'
           /\ \A i \in 1 .. Len(pid_table) :
                /\ pid_table[i] \in DOMAIN heap'
                /\ InTable(pid_table[i])'
                /\ heap'[pid_table[i]].pid = heap[pid_table[i]].pid
                /\ exit_state[heap[pid_table[i]].pid] # EXIT_RUNNING =>
                     /\ heap'[pid_table[i]].qtable =
                          heap[pid_table[i]].qtable
                     /\ heap'[pid_table[i]].prev_state =
                          heap[pid_table[i]].prev_state
                     /\ heap'[pid_table[i]].prev_action =
                          heap[pid_table[i]].prev_action
      /\ (wpc = "get" /\ wpc' = "unlock" /\ HasEntry(p)) =>
           /\ pe' = EntryOf(p)
           /\ UNCHANGED <<pid_table, heap>>
      /\ (wpc = "check" /\ wpc' = "choose"
            /\ curr_runtime < heap[pe].prev_runtime) => delta' = 0
    ]_vars

\* C17 witness: a process with a learned qtable exited, its pid was taken
\* by a new process with less CPU time, and the worker has looked the pid
\* up, got the old entry with its qtable and computed delta 0.
C17_Witness ==
  /\ wpc = "choose"
  /\ curr_runtime < heap[pe].prev_runtime
  /\ delta = 0
  /\ heap[pe].pid = p
  /\ heap[pe].qtable # ZeroTable


NonPositive(table) == \A s \in States, a \in Actions : table[s][a] <= 0

\* C18: the delta the loop computes is never negative and its reward never
\* positive; with alpha and gamma in [0, 1000], q_update applied with a
\* reward <= 0 to a qtable whose cells are all <= 0 gives a qtable whose
\* cells are all <= 0; the cells of every entry of the table and the
\* worker's reward are <= 0.
C18_RewardsAndCellsNonPositive ==
  /\ ret.fn = "reward" => (ret.delta >= 0 /\ ret.reward <= 0)
  /\ (/\ ret.fn = "update"
      /\ alpha_permille \in 0 .. 1000
      /\ gamma_permille \in 0 .. 1000
      /\ args.reward <= 0
      /\ NonPositive(args.pe.qtable)) => NonPositive(ret.pe.qtable)
  /\ delta >= 0
  /\ reward <= 0
  /\ \A a \in DOMAIN heap : NonPositive(heap[a].qtable)

\* C18 witness: with alpha = gamma = 1000 an update with reward 0 whose next
\* state has a best value of 0 has raised a cell from -10 to 0, and no
\* further.
C18_Witness ==
  /\ ret.fn = "update"
  /\ alpha_permille = 1000
  /\ gamma_permille = 1000
  /\ args.reward = 0
  /\ args.pe.qtable[args.s][args.a] = -10
  /\ ret.pe.qtable[args.s][args.a] = 0
  /\ NonPositive(ret.pe.qtable)

====
